---- MODULE Spec2Model ----
(***************************************************************************)
(* Physical frame allocator of mat-os (src/kernel/allocator.cpp): a bitmap *)
(* over the usable frames of the Limine memory map, placed by init() in    *)
(* the memory it manages, with first-fit allocate_page() and free_page();  *)
(* the order of the init calls of kernel_init(); and the accessors of a    *)
(* 64-bit PageTableEntry (paging.cpp).                                     *)
(*                                                                         *)
(* A 64-bit bitmap element is modelled as the set of its set bit           *)
(* positions; the bitmap's memory is the set `mem` of global bit positions *)
(* (64 * element + bit) counted from bitmap.address.                       *)
(***************************************************************************)
EXTENDS Integers, Sequences, FiniteSets, TLC

VARIABLES
    memmap_response,  \* memmap_request.response is non-null
    hhdm_response,    \* hhdm_request.response is non-null
    memmap,           \* memmap_request.response->entries, in firmware order
    hhdm_offset,      \* hhdm_request.response->offset
    shift_ub,         \* what this build computes for `1 << n` with n >= 32
    hhdm_base,        \* the global hhdm_base
    bitmap,           \* the global PageBitmap: m_data's address and element count
    mem,              \* the bits set in the memory m_data points at
    phase,            \* "boot" before init(), "ready" after it, "halted" after halt()
    live,             \* history: addresses returned by allocate_page() and not freed since
    misuse,           \* history: free_page() was called on a pointer that was not live
    freed,            \* history: free_page() has been called
    run,              \* history: addresses returned since init(), while no free_page() was called
    last,             \* history: the last operation, its argument, result and the bits before it
    kernel_pc,        \* kernel_init(): the position in KernelInit of the next call it makes
    m_value,          \* PageTableEntry::m_value of one entry, as the set of its set bits
    pte_last          \* history: the last PageTableEntry operation, its argument and m_value before it

vars == << memmap_response, hhdm_response, memmap, hhdm_offset, shift_ub,
           hhdm_base, bitmap, mem, phase, live, misuse, freed, run, last,
           kernel_pc, m_value, pte_last >>

\* What the allocator's own operations never touch.
pte_vars == << m_value, pte_last >>

\* ------------------------------------------------------------- constants

PAGE_SIZE == 4096

bits_per_element == 64

\* Number of allocate_page() calls a run of the model makes at most while
\* free_page() has not been called.
MaxAllocs == 66

\* Number of pages the model lets callers hold at a time.
MaxLive == 38

\* Number of operations a run of the model applies to the page table entry.
MaxPteOps == 2

\* ---------------------------------------------------------------- inputs

Usable(b, l) == [base |-> b, length |-> l, type |-> "USABLE"]

Reserved(b, l) == [base |-> b, length |-> l, type |-> "RESERVED"]

Framebuffer(b, l) == [base |-> b, length |-> l, type |-> "FRAMEBUFFER"]

\* One usable region of exactly 64 pages.
Map64 == << Reserved(0, PAGE_SIZE), Usable(PAGE_SIZE, 64 * PAGE_SIZE) >>

\* 64 usable pages split over two usable entries with other types between.
MapSplit ==
    << Reserved(0, PAGE_SIZE),
       Usable(PAGE_SIZE, 3 * PAGE_SIZE),
       Framebuffer(4 * PAGE_SIZE, 12 * PAGE_SIZE),
       Usable(16 * PAGE_SIZE, 61 * PAGE_SIZE),
       Reserved(77 * PAGE_SIZE, 100) >>

\* 70 usable pages: neither a multiple of 8 nor of 64.
Map70 == << Reserved(0, PAGE_SIZE), Usable(PAGE_SIZE, 70 * PAGE_SIZE) >>

\* A first usable entry (one page) too small for the 4097-byte bitmap of
\* 32776 pages, which therefore lands in the second usable entry.
MapBig ==
    << Reserved(0, PAGE_SIZE),
       Usable(PAGE_SIZE, PAGE_SIZE),
       Reserved(2 * PAGE_SIZE, 254 * PAGE_SIZE),
       Usable(256 * PAGE_SIZE, 32775 * PAGE_SIZE) >>

\* No usable entry at all: the only map for which no usable entry can hold the
\* bitmap, short of one with more than 32768 usable entries.
MapNone == << Reserved(0, PAGE_SIZE), Framebuffer(4 * PAGE_SIZE, 12 * PAGE_SIZE) >>

\* Maps whose first usable entry starts at physical address 0, which the boot
\* protocol does not hand over: a single entry of 4 pages (a bitmap of 0
\* bytes), a single entry of 64 pages, and 4 pages followed by a second entry.
MapZero4 == << Usable(0, 4 * PAGE_SIZE), Reserved(4 * PAGE_SIZE, PAGE_SIZE) >>

MapZero64 == << Usable(0, 64 * PAGE_SIZE), Reserved(64 * PAGE_SIZE, PAGE_SIZE) >>

MapZeroSplit ==
    << Usable(0, 4 * PAGE_SIZE),
       Reserved(4 * PAGE_SIZE, 4 * PAGE_SIZE),
       Usable(8 * PAGE_SIZE, 60 * PAGE_SIZE) >>

ZeroBaseMaps == { MapZero4, MapZero64, MapZeroSplit }

\* Memory maps as the boot protocol hands them over: usable entries are page
\* aligned in base and length, do not overlap, and never start at address 0.
MemMaps == { Map64, MapSplit, Map70, MapBig, MapNone }

\* The higher-half offset the firmware reports (page aligned).
HhdmOffsets == { 262144 * PAGE_SIZE }

\* `1 << bit_index` is an int shift: for bit_index >= 32 it is undefined.  A
\* build may take the count modulo 32 (x86 shl), produce 0, or shift in 64 bits.
ShiftOutcomes == { "wrap", "zero", "wide" }

\* ------------------------------------------------- conversions, PageBitmap

physical_to_virtual(physical_address) == physical_address + hhdm_base

\* Inputs are at or above hhdm_base, so the unsigned subtraction does not wrap.
virtual_to_physical(virtual_address) == virtual_address - hhdm_base

div_ceil(a, b) == (a + b - 1) \div b

\* The u64 value of `const ElementType bit_mask = 1 << bit_index`, as the set
\* of its set bits: the shift is done in int, so bit 31 sign-extends to bits
\* 31..63, and a count of 32 or more is undefined (shift_ub).
RECURSIVE bit_mask(_)
bit_mask(bit_index) ==
    IF bit_index < 31 THEN { bit_index }
    ELSE IF bit_index = 31 THEN 31 .. 63
    ELSE CASE shift_ub = "wrap" -> bit_mask(bit_index - 32)
           [] shift_ub = "zero" -> {}
           [] shift_ub = "wide" -> { bit_index }

\* The positions in memory that element array_index's mask covers.
ElementBits(index) ==
    LET array_index == index \div bits_per_element
        bit_index == index % bits_per_element
    IN  { array_index * bits_per_element + b : b \in bit_mask(bit_index) }

\* PageBitmap::set on memory m.
set(m, index, value) ==
    IF value THEN m \cup ElementBits(index) ELSE m \ ElementBits(index)

\* PageBitmap::get on memory m.
get(m, index) == (m \cap ElementBits(index)) # {}

\* PageBitmap::clear on memory m: zeroes the size elements of m_data.
clear(m, size) == { b \in m : b >= size * bits_per_element }

\* ------------------------------------------------------------------ init

USABLE(entry) == entry.type = "USABLE"

RECURSIVE UsableMemory(_)
UsableMemory(i) ==
    IF i > Len(memmap) THEN 0
    ELSE (IF USABLE(memmap[i]) THEN memmap[i].length ELSE 0) + UsableMemory(i + 1)

usable_memory == UsableMemory(1)

pages == usable_memory \div PAGE_SIZE

bitmap_array_size == pages \div 8

\* Mutant: the pages of the array rounded down instead of up.
bitmap_page_size_RoundedDown == bitmap_array_size \div PAGE_SIZE

bitmap_page_size == div_ceil(bitmap_array_size, PAGE_SIZE)

\* Mutant: the first entry of any type that is long enough is taken.
RECURSIVE FindBitmapSpace_AnyType(_, _)
FindBitmapSpace_AnyType(i, skipped_pages) ==
    IF i > Len(memmap)
    THEN [found |-> FALSE, entry |-> 0, skipped_pages |-> skipped_pages]
    ELSE IF memmap[i].length >= bitmap_array_size
         THEN [found |-> TRUE, entry |-> i, skipped_pages |-> skipped_pages]
         ELSE FindBitmapSpace_AnyType(i + 1, skipped_pages + memmap[i].length \div PAGE_SIZE)

\* The second loop of init(): the first usable entry whose length is at least
\* bitmap_array_size, and the pages of the usable entries skipped before it.
RECURSIVE FindBitmapSpace(_, _)
FindBitmapSpace(i, skipped_pages) ==
    IF i > Len(memmap)
    THEN [found |-> FALSE, entry |-> 0, skipped_pages |-> skipped_pages]
    ELSE IF USABLE(memmap[i])
         THEN IF memmap[i].length >= bitmap_array_size
              THEN [found |-> TRUE, entry |-> i, skipped_pages |-> skipped_pages]
              ELSE FindBitmapSpace(i + 1, skipped_pages + memmap[i].length \div PAGE_SIZE)
         ELSE FindBitmapSpace(i + 1, skipped_pages)

\* Mutant: the bits are set from index 0, without the skipped pages.
RECURSIVE MarkBitmapPages_NoSkip(_, _, _)
MarkBitmapPages_NoSkip(m, i, skipped_pages) ==
    IF i >= bitmap_page_size THEN m
    ELSE MarkBitmapPages_NoSkip(set(m, i, TRUE), i + 1, skipped_pages)

\* The last loop of init(): set the bits of the pages the bitmap array occupies.
RECURSIVE MarkBitmapPages(_, _, _)
MarkBitmapPages(m, i, skipped_pages) ==
    IF i >= bitmap_page_size THEN m
    ELSE MarkBitmapPages(set(m, i + skipped_pages, TRUE), i + 1, skipped_pages)

\* A record of `last`: the operation, its argument and result, whether it
\* halted, and the bits before it.  For a free_page(p) that directly follows
\* the allocate_page() that returned p, undoes holds and before is the bits
\* before that allocation.
Op(op, arg, ret, fatal, pre) ==
    [op |-> op, arg |-> arg, ret |-> ret, fatal |-> fatal, pre |-> pre,
     undoes |-> FALSE, before |-> {}]

NoOp == Op("none", 0, 0, FALSE, {})

init ==
    /\ phase = "boot"
    /\ IF ~memmap_response \/ ~hhdm_response
       THEN /\ phase' = "halted"
            /\ last' = Op("init", 0, 0, TRUE, mem)
            /\ UNCHANGED << hhdm_base, bitmap, mem >>
       ELSE LET space == FindBitmapSpace(1, 0)
                size == bitmap_array_size \div 8
                \* nullptr unless the loop found an entry; its base plus hhdm_base
                bitmap_array_addr ==
                    IF space.found THEN memmap[space.entry].base + hhdm_offset ELSE 0
            IN  /\ hhdm_base' = hhdm_offset
                /\ IF bitmap_array_addr = 0
                   THEN /\ phase' = "halted"
                        /\ last' = Op("init", 0, 0, TRUE, mem)
                        /\ UNCHANGED << bitmap, mem >>
                   ELSE /\ bitmap' = [address |-> bitmap_array_addr, size |-> size]
                        /\ mem' = MarkBitmapPages(clear(mem, size), 0, space.skipped_pages)
                        /\ phase' = "ready"
                        /\ last' = Op("init", 0, 0, FALSE, mem)
    /\ UNCHANGED << memmap_response, hhdm_response, memmap, hhdm_offset, shift_ub,
                    live, misuse, freed, run >>

\* --------------------------------------------------------- allocate_page

\* Mutant: the pages of entries of every type are scanned.
RECURSIVE AllocScan_AnyType(_, _, _, _)
AllocScan_AnyType(m, i, size, page_index) ==
    IF i > Len(memmap)
    THEN [page_index |-> page_index, page_address |-> 0]
    ELSE IF size <= memmap[i].length
         THEN IF ~get(m, page_index)
              THEN LET page_address == memmap[i].base + size - PAGE_SIZE
                   IN  IF page_address # 0
                       THEN [page_index |-> page_index, page_address |-> page_address]
                       ELSE AllocScan_AnyType(m, i + 1, PAGE_SIZE, page_index)
              ELSE AllocScan_AnyType(m, i, size + PAGE_SIZE, page_index + 1)
         ELSE AllocScan_AnyType(m, i + 1, PAGE_SIZE, page_index)

\* The two nested loops of allocate_page() over memory m, from entry i with the
\* inner loop variable at size.  page_address stays 0 until a clear bit is
\* found; `if (page_address) break` leaves the outer loop only for a non-zero
\* address, and the inner break skips the increment of page_index.
RECURSIVE AllocScan(_, _, _, _)
AllocScan(m, i, size, page_index) ==
    IF i > Len(memmap)
    THEN [page_index |-> page_index, page_address |-> 0]
    ELSE IF ~USABLE(memmap[i])
         THEN AllocScan(m, i + 1, PAGE_SIZE, page_index)
         ELSE IF size <= memmap[i].length
              THEN IF ~get(m, page_index)
                   THEN LET page_address == memmap[i].base + size - PAGE_SIZE
                        IN  IF page_address # 0
                            THEN [page_index |-> page_index, page_address |-> page_address]
                            ELSE AllocScan(m, i + 1, PAGE_SIZE, page_index)
                   ELSE AllocScan(m, i, size + PAGE_SIZE, page_index + 1)
              ELSE AllocScan(m, i + 1, PAGE_SIZE, page_index)

\* Callers use the allocator after init() returned; halt() does not return.
allocate_page ==
    /\ phase = "ready"
    /\ Len(run) < MaxAllocs
    /\ Cardinality(live) < MaxLive
    /\ LET scan == AllocScan(mem, 1, PAGE_SIZE, 0)
           pointer == physical_to_virtual(scan.page_address)
       IN  IF scan.page_address = 0
           THEN /\ phase' = "halted"
                /\ last' = Op("alloc", 0, 0, TRUE, mem)
                /\ UNCHANGED << mem, live, run >>
           ELSE /\ mem' = set(mem, scan.page_index, TRUE)
                /\ last' = Op("alloc", 0, pointer, FALSE, mem)
                /\ live' = live \cup { pointer }
                /\ run' = IF freed THEN run ELSE Append(run, pointer)
                /\ UNCHANGED phase
    /\ UNCHANGED << memmap_response, hhdm_response, memmap, hhdm_offset, shift_ub,
                    hhdm_base, bitmap, misuse, freed, kernel_pc, pte_vars >>

\* ------------------------------------------------------------- free_page

\* Mutant: the pages of the usable entries passed over are not accumulated.
RECURSIVE LocatePage_NoAccumulate(_, _, _)
LocatePage_NoAccumulate(page_address, i, page_index) ==
    IF i > Len(memmap)
    THEN [found |-> FALSE, page_index |-> page_index]
    ELSE IF USABLE(memmap[i])
            /\ page_address >= memmap[i].base
            /\ page_address < memmap[i].base + memmap[i].length
         THEN [found |-> TRUE,
               page_index |-> page_index + (page_address - memmap[i].base) \div PAGE_SIZE]
         ELSE LocatePage_NoAccumulate(page_address, i + 1, page_index)

\* Mutant: the type of the entry is not looked at.
RECURSIVE LocatePage_AnyType(_, _, _)
LocatePage_AnyType(page_address, i, page_index) ==
    IF i > Len(memmap)
    THEN [found |-> FALSE, page_index |-> page_index]
    ELSE IF page_address >= memmap[i].base
            /\ page_address < memmap[i].base + memmap[i].length
         THEN [found |-> TRUE,
               page_index |-> page_index
                              + (page_address - memmap[i].base) \div PAGE_SIZE]
         ELSE LocatePage_AnyType(page_address, i + 1,
                                 page_index + memmap[i].length \div PAGE_SIZE)

\* The loop of free_page(): the usable entry holding page_address, and the
\* page index accumulated over the usable entries before it.
RECURSIVE LocatePage(_, _, _)
LocatePage(page_address, i, page_index) ==
    IF i > Len(memmap)
    THEN [found |-> FALSE, page_index |-> page_index]
    ELSE IF USABLE(memmap[i])
         THEN IF page_address >= memmap[i].base
                 /\ page_address < memmap[i].base + memmap[i].length
              THEN [found |-> TRUE,
                    page_index |-> page_index
                                   + (page_address - memmap[i].base) \div PAGE_SIZE]
              ELSE LocatePage(page_address, i + 1,
                              page_index + memmap[i].length \div PAGE_SIZE)
         ELSE LocatePage(page_address, i + 1, page_index)

\* Mutant: no alignment check, the address is rounded down to its page.
Misaligned_Unchecked(address) == FALSE

\* `address % PAGE_SIZE != 0`, the first check of free_page().
Misaligned(address) == address % PAGE_SIZE # 0

free_page(pointer) ==
    /\ phase = "ready"
    /\ LET address == pointer
           where == LocatePage(virtual_to_physical(address), 1, 0)
           undoes == last.op = "alloc" /\ ~last.fatal /\ last.ret = pointer
           record(fatal) ==
               [Op("free", pointer, 0, fatal, mem) EXCEPT
                   !.undoes = undoes, !.before = IF undoes THEN last.pre ELSE {}]
       IN  IF Misaligned(address) \/ ~where.found
           THEN /\ phase' = "halted"
                /\ last' = record(TRUE)
                /\ UNCHANGED << mem, live, misuse >>
           ELSE /\ mem' = set(mem, where.page_index, FALSE)
                /\ last' = record(FALSE)
                /\ live' = live \ { pointer }
                /\ misuse' = (misuse \/ pointer \notin live)
                /\ UNCHANGED phase
    /\ freed' = TRUE
    /\ run' = << >>
    /\ UNCHANGED << memmap_response, hhdm_response, memmap, hhdm_offset, shift_ub,
                    hhdm_base, bitmap, kernel_pc, pte_vars >>

\* ----------------------------------------------------------- kernel_init

\* The init calls of kernel_init() in the order it makes them; behind the
\* last one it stays in its hlt loop.
KernelInit ==
    << "serial::init", "idt::init", "paging::init", "alloc::init",
       "pic::init", "ps2::init", "pit::init", "framebuffer::init" >>

\* The position of the call of name in kernel_init().
Call(name) == CHOOSE i \in 1 .. Len(KernelInit) : KernelInit[i] = name

\* kernel_init() makes its call of name: halt() in an earlier call does not
\* return, so nothing is called after it.
call(name) ==
    /\ phase # "halted"
    /\ kernel_pc = Call(name)
    /\ kernel_pc' = kernel_pc + 1

\* The allocator's state, which only alloc::init() of these calls touches.
alloc_vars ==
    << memmap_response, hhdm_response, memmap, hhdm_offset, shift_ub,
       hhdm_base, bitmap, mem, live, misuse, freed, run, last >>

serial_init == call("serial::init") /\ UNCHANGED << alloc_vars, phase, pte_vars >>

idt_init == call("idt::init") /\ UNCHANGED << alloc_vars, phase, pte_vars >>

paging_init == call("paging::init") /\ UNCHANGED << alloc_vars, phase, pte_vars >>

alloc_init == call("alloc::init") /\ init /\ UNCHANGED pte_vars

pic_init == call("pic::init") /\ UNCHANGED << alloc_vars, phase, pte_vars >>

ps2_init == call("ps2::init") /\ UNCHANGED << alloc_vars, phase, pte_vars >>

pit_init == call("pit::init") /\ UNCHANGED << alloc_vars, phase, pte_vars >>

\* framebuffer::init() panics without a framebuffer response.
framebuffer_init ==
    /\ call("framebuffer::init")
    /\ \E framebuffer_response \in BOOLEAN :
           phase' = IF framebuffer_response THEN phase ELSE "halted"
    /\ UNCHANGED << alloc_vars, pte_vars >>

\* -------------------------------------------------------- PageTableEntry

\* 64-bit (and 16-bit) values are the sets of their set bit positions.

\* x << n and x >> n on u64.
shl(x, n) == { b + n : b \in { c \in x : c + n <= 63 } }

shr(x, n) == { b - n : b \in { c \in x : c >= n } }

\* mat::math::bit_mask<u64>(bits): the low `bits` bits set.
math_bit_mask(bits) == 0 .. (bits - 1)

\* mat::math::set_bit(value, idx, bit): value with bit idx set to bit.
set_bit(value, idx, bit) == IF bit THEN value \cup { idx } ELSE value \ { idx }

\* PageTableEntry::get_bit: `m_value & (1 << idx)` converted to bool.  The
\* shift is the int shift of PageBitmap's masks, converted to u64 for the &.
get_bit(value, idx) == (value \cap bit_mask(idx)) # {}

is_present(value) == get_bit(value, 0)

is_writable(value) == get_bit(value, 1)

is_user(value) == get_bit(value, 2)

is_ps(value) == get_bit(value, 7)

is_execution_disabled(value) == get_bit(value, 63)

\* PageTableEntry::addr: m_value & (((u64(1) << 52) - 1) & ~((u64(1) << 12) - 1)).
addr(value) == value \cap (math_bit_mask(52) \ math_bit_mask(12))

\* PageTableEntry::get_available, as a u16.
get_available(value) ==
    (shr(value, 47) \cap (5 .. 15)) \cup (shr(value, 7) \cap (1 .. 4))

\* A record of pte_last: the operation, its argument, m_value before it, and
\* the number of operations applied to the entry so far.
PteOp(op, arg, pre, n) == [op |-> op, arg |-> arg, pre |-> pre, n |-> n]

NoPteOp == PteOp("none", {}, {}, 0)

\* An operation assigns m_value and touches nothing else.
Assign(op, arg, value) ==
    /\ pte_last.n < MaxPteOps
    /\ m_value' = value
    /\ pte_last' = PteOp(op, arg, m_value, pte_last.n + 1)
    /\ UNCHANGED << alloc_vars, phase, kernel_pc >>

set_present(value) == Assign("set_present", value, set_bit(m_value, 0, value))

set_writable(value) == Assign("set_writable", value, set_bit(m_value, 1, value))

set_user(value) == Assign("set_user", value, set_bit(m_value, 2, value))

set_ps(value) == Assign("set_ps", value, set_bit(m_value, 7, value))

set_execution_disabled(value) ==
    Assign("set_execution_disabled", value, set_bit(m_value, 63, value))

\* Mutant: the entry is overwritten with the address, not merged with it.
set_addr_Overwrite(value) ==
    Assign("set_addr", value, (value \ math_bit_mask(12)) \cap math_bit_mask(48))

\* value is addr.value() of the PhysicalAddress passed.
set_addr(value) ==
    Assign("set_addr", value,
           (m_value \ shl(math_bit_mask(48 - 12), 12))
               \cup ((value \ math_bit_mask(12)) \cap math_bit_mask(48)))

\* Mutant: the bits of the old value are not cleared before the new are or-ed in.
set_available_NoClear(value) ==
    Assign("set_available", value,
           m_value \cup shl(value \cap (1 .. 4), 7) \cup shl(shr(value, 5), 52))

\* value is a u16: bits 1..4 go to bits 8..11, bits 5..15 to bits 52..62.
set_available(value) ==
    LET low == (m_value \ shl(math_bit_mask(4), 8)) \cup shl(value \cap (1 .. 4), 7)
    IN  Assign("set_available", value,
               (low \ shl(math_bit_mask(11), 52)) \cup shl(shr(value, 5), 52))

PageTableEntry_clear == Assign("clear", {}, {})

\* Entry values the model starts from: empty, all ones, and mixes of flag,
\* address and available bits on both sides of bits 31, 47 and 51.
EntryValues ==
    { {}, 0 .. 63, { 0, 7, 12, 40, 51 }, { 1, 2, 8, 31, 48, 62, 63 }, { 9, 30, 47, 52 } }

\* Physical addresses passed to set_addr: aligned and not, below and above
\* bit 47 and bit 51.
AddrValues ==
    { {}, { 12 }, { 5, 13 }, { 31, 47 }, { 12, 48, 51 }, 0 .. 63 }

\* u16 values passed to set_available: 14-bit values, even and odd, and all ones.
AvailableValues ==
    { {}, { 0 }, { 1 }, { 2, 12 }, { 0, 4, 5, 13 }, 1 .. 13, 0 .. 13, 0 .. 15 }

\* ---------------------------------------------------------- specification

\* The physical address of the frame with index page_index, frames counted as
\* allocate_page() counts them: usable entries in order, whole pages of each.
RECURSIVE FrameAddress(_, _)
FrameAddress(i, page_index) ==
    IF i > Len(memmap) THEN -1
    ELSE IF USABLE(memmap[i]) /\ page_index < memmap[i].length \div PAGE_SIZE
         THEN memmap[i].base + page_index * PAGE_SIZE
         ELSE FrameAddress(i + 1,
                  IF USABLE(memmap[i])
                  THEN page_index - memmap[i].length \div PAGE_SIZE ELSE page_index)

\* The pointers callers pass to free_page(): the frames at the start of the
\* index space and around bit 31 of the first element, a pointer into the
\* middle of a page, and a page outside every usable entry (physical 0).
FreeArgs ==
    { physical_to_virtual(FrameAddress(1, f)) : f \in { 0, 1, 31, 32 } }
    \cup { physical_to_virtual(FrameAddress(1, 1)) + 8, physical_to_virtual(0) }

\* What the memory holds before init() writes it is not initialised: zeroes,
\* or every bit set, over the elements that hold one bit per page.
Garbage == { {}, 0 .. (div_ceil(pages, bits_per_element) * bits_per_element - 1) }

InitWith(maps) ==
    /\ memmap_response \in BOOLEAN
    /\ hhdm_response \in BOOLEAN
    /\ memmap \in maps
    /\ hhdm_offset \in HhdmOffsets
    /\ shift_ub \in ShiftOutcomes
    /\ hhdm_base = 0
    /\ bitmap = [address |-> 0, size |-> 0]
    /\ mem \in Garbage
    /\ phase = "boot"
    /\ live = {}
    /\ misuse = FALSE
    /\ freed = FALSE
    /\ run = << >>
    /\ last = NoOp
    /\ m_value = {}
    /\ pte_last = NoPteOp

\* The allocator from the call of alloc::init() on.
Init == InitWith(MemMaps) /\ kernel_pc = Call("alloc::init")

\* The scenario of one usable region of exactly 64 pages.
Init64 == InitWith({ Map64 }) /\ kernel_pc = Call("alloc::init")

\* The allocator on a map whose first usable entry starts at physical 0.
InitZeroBase == InitWith(ZeroBaseMaps) /\ kernel_pc = Call("alloc::init")

\* kernel_init() from its entry.
InitBoot == InitWith(MemMaps) /\ kernel_pc = 1

Next ==
    \/ alloc_init
    \/ allocate_page
    \/ \E pointer \in FreeArgs : free_page(pointer)

Spec == Init /\ [][Next]_vars

Spec64 == Init64 /\ [][Next]_vars

SpecZeroBase == InitZeroBase /\ [][Next]_vars

NextBoot ==
    \/ serial_init
    \/ idt_init
    \/ paging_init
    \/ alloc_init
    \/ pic_init
    \/ ps2_init
    \/ pit_init
    \/ framebuffer_init

SpecBoot == InitBoot /\ [][NextBoot]_vars

\* One page table entry of any value, in a build with any shift outcome; the
\* allocator does not act.
InitPte ==
    /\ memmap_response = TRUE
    /\ hhdm_response = TRUE
    /\ memmap = Map64
    /\ hhdm_offset \in HhdmOffsets
    /\ shift_ub \in ShiftOutcomes
    /\ hhdm_base = 0
    /\ bitmap = [address |-> 0, size |-> 0]
    /\ mem = {}
    /\ phase = "boot"
    /\ live = {}
    /\ misuse = FALSE
    /\ freed = FALSE
    /\ run = << >>
    /\ last = NoOp
    /\ kernel_pc = 1
    /\ m_value \in EntryValues
    /\ pte_last = NoPteOp

NextPte ==
    \/ \E value \in BOOLEAN : set_present(value)
    \/ \E value \in BOOLEAN : set_writable(value)
    \/ \E value \in BOOLEAN : set_user(value)
    \/ \E value \in BOOLEAN : set_ps(value)
    \/ \E value \in BOOLEAN : set_execution_disabled(value)
    \/ \E value \in AddrValues : set_addr(value)
    \/ \E value \in AvailableValues : set_available(value)
    \/ PageTableEntry_clear

SpecPte == InitPte /\ [][NextPte]_vars

\* ------------------------------------------------------------ properties

\* The physical bytes of the bitmap's own storage: bitmap_array_size bytes
\* from the physical address the bitmap was placed at.
BitmapStart == virtual_to_physical(bitmap.address)

\* The page at physical page_address holds at least one byte of the storage.
HoldsBitmap(page_address) ==
    /\ page_address < BitmapStart + bitmap_array_size
    /\ page_address + PAGE_SIZE > BitmapStart

\* The bit of frame index f in memory m: bit f % 64 of element f / 64.
BitSet(m, f) == f \in m

Frames == 0 .. (pages - 1)

C2_BitmapFramesMarkedAfterInit ==
    (last.op = "init" /\ ~last.fatal)
        => \A f \in Frames :
               HoldsBitmap(FrameAddress(1, f)) => (BitSet(mem, f) /\ get(mem, f))

\* C2 witness: init() completed with the bitmap behind a skipped usable entry,
\* so the frames it occupies do not start at index 0.
C2_Witness ==
    /\ last.op = "init" /\ ~last.fatal
    /\ FindBitmapSpace(1, 0).skipped_pages > 0
    /\ bitmap_page_size > 1
    /\ \E f \in 1 .. 2 : HoldsBitmap(FrameAddress(1, f)) /\ BitSet(mem, f)

\* The frame index free_page() derives for a pointer.
IndexOf(pointer) == LocatePage(virtual_to_physical(pointer), 1, 0).page_index

\* The pointer allocate_page() hands out for frame index f.
PointerOf(f) == physical_to_virtual(FrameAddress(1, f))

\* The number of frames whose bit is clear in memory m.
FreeFrames(m) == pages - Cardinality({ b \in m : b < pages })

\* C3: a free_page() of a page holding the bitmap's storage, called right
\* after init() and so before any allocation, halts and leaves the bit set.
C3_FreeOfBitmapFrameIsFatal ==
    [][ ( /\ last.op = "init" /\ ~last.fatal
          /\ last'.op = "free"
          /\ HoldsBitmap(virtual_to_physical(last'.arg)) )
        => ( /\ last'.fatal /\ phase' = "halted"
             /\ BitSet(mem', IndexOf(last'.arg)) ) ]_vars

\* C4: while callers free only pointers they hold, the bit of every frame
\* index is set exactly if the frame holds the bitmap's storage or is held.
C4_BitSetIffReservedOrHeld ==
    (phase = "ready" /\ ~misuse)
        => \A f \in Frames :
               BitSet(mem, f) <=> (HoldsBitmap(FrameAddress(1, f)) \/ PointerOf(f) \in live)

C7_SixtyFourSucceedThenFatal ==
    (~freed /\ last.op = "alloc")
        => IF last.fatal THEN Len(run) = 64 ELSE Len(run) <= 64

\* C8: a returning allocate_page() hands out the free frame of lowest index,
\* sets that frame's bit and changes no other bit.
C8_FirstFitSetsOneBit ==
    (last.op = "alloc" /\ ~last.fatal)
        => \E f \in Frames :
               /\ ~BitSet(last.pre, f)
               /\ \A g \in 0 .. (f - 1) : BitSet(last.pre, g)
               /\ last.ret = PointerOf(f)
               /\ mem = last.pre \cup { f }

C10_MisalignedFreeHalts ==
    (last.op = "free" /\ last.arg % PAGE_SIZE # 0)
        => (last.fatal /\ phase = "halted" /\ mem = last.pre)

\* C10 witness: the misaligned pointer lies in a page the caller holds, whose
\* bit rounding down would have cleared.
C10_Witness ==
    /\ last.op = "free" /\ last.arg % PAGE_SIZE # 0
    /\ (last.arg - (last.arg % PAGE_SIZE)) \in live
    /\ BitSet(mem, IndexOf(last.arg))
    /\ phase = "halted"

\* Entry i of the memory map is usable and holds the byte at page_address.
InUsableEntry(i, page_address) ==
    /\ USABLE(memmap[i])
    /\ page_address >= memmap[i].base
    /\ page_address < memmap[i].base + memmap[i].length

\* C11: free_page() of a page-aligned pointer whose physical address lies in
\* no usable entry of the memory map halts and changes no bit.
C11_FreeOutsideUsableHalts ==
    ( /\ last.op = "free" /\ last.arg % PAGE_SIZE = 0
      /\ \A i \in 1 .. Len(memmap) : ~InUsableEntry(i, virtual_to_physical(last.arg)) )
        => (last.fatal /\ phase = "halted" /\ mem = last.pre)

\* C11 witness: the pointer is the page at physical 0, which a reserved entry
\* of the map holds, freed while the bit of frame 0 was set and pages were held.
C11_Witness ==
    /\ last.op = "free" /\ last.arg = physical_to_virtual(0)
    /\ \E i \in 1 .. Len(memmap) :
           ~USABLE(memmap[i]) /\ memmap[i].base = 0 /\ memmap[i].length >= PAGE_SIZE
    /\ BitSet(mem, 0) /\ live # {}
    /\ phase = "halted"

\* The pages of the usable entries before entry i, of other types none.
RECURSIVE UsablePagesBefore(_)
UsablePagesBefore(i) ==
    IF i <= 1 THEN 0
    ELSE UsablePagesBefore(i - 1)
         + (IF USABLE(memmap[i - 1]) THEN memmap[i - 1].length \div PAGE_SIZE ELSE 0)

\* C12: every address allocate_page() returns is hhdm_base plus the physical
\* address of a whole page inside a usable entry, and the bit it sets is the
\* page's index counted over the pages of usable entries only.
C12_OnlyUsablePagesReturned ==
    (last.op = "alloc" /\ ~last.fatal)
        => \E i \in 1 .. Len(memmap) :
               LET page_address == last.ret - hhdm_base
                   offset == page_address - memmap[i].base
               IN  /\ USABLE(memmap[i])
                   /\ offset >= 0 /\ offset % PAGE_SIZE = 0
                   /\ offset + PAGE_SIZE <= memmap[i].length
                   /\ mem = set(last.pre, UsablePagesBefore(i) + offset \div PAGE_SIZE, TRUE)

\* C12 witness: the map has a framebuffer entry between two usable entries and
\* the page returned is the first page of the usable entry behind it.
C12_Witness ==
    /\ last.op = "alloc" /\ ~last.fatal
    /\ \E i \in 2 .. Len(memmap) :
           /\ USABLE(memmap[i]) /\ memmap[i - 1].type = "FRAMEBUFFER"
           /\ last.ret = physical_to_virtual(memmap[i].base)
           /\ UsablePagesBefore(i) > 0

\* kernel_init() has made its call of name.
Started(name) == kernel_pc > Call(name)

\* C13: in kernel_init(), alloc::init() has completed when paging::init()
\* starts, so the allocator is never uninitialised while the mapper runs.
C13_AllocatorInitializedFirst ==
    Started("paging::init")
        => (Started("alloc::init") /\ last.op = "init" /\ ~last.fatal)

\* The value the getter of a flag returns on entry value `value`, by the
\* name of the flag's setter.
FlagGetter(op, value) ==
    CASE op = "set_present" -> is_present(value)
      [] op = "set_writable" -> is_writable(value)
      [] op = "set_user" -> is_user(value)
      [] op = "set_ps" -> is_ps(value)
      [] op = "set_execution_disabled" -> is_execution_disabled(value)

FlagSetters ==
    { "set_present", "set_writable", "set_user", "set_ps", "set_execution_disabled" }

\* The bits of the five flags.
FlagBits == { 0, 1, 2, 7, 63 }

\* C14: after the setter of any of the five flags was called with v on any
\* entry value, the flag's getter returns v.
C14_FlagSetThenGet ==
    (pte_last.op \in FlagSetters)
        => (FlagGetter(pte_last.op, m_value) = pte_last.arg)

\* C15: set_addr(p) leaves the five flag bits as they were, and each flag
\* setter leaves addr() as it was.
C15_AddrAndFlagsIndependent ==
    /\ (pte_last.op = "set_addr")
           => (m_value \cap FlagBits = pte_last.pre \cap FlagBits)
    /\ (pte_last.op \in FlagSetters)
           => (addr(m_value) = addr(pte_last.pre))

\* C15 witness: set_addr of an address with every bit set changed addr() of an
\* entry that had some of the flags set and others clear.
C15_Witness ==
    /\ pte_last.op = "set_addr" /\ pte_last.arg = 0 .. 63
    /\ pte_last.pre \cap FlagBits = { 0, 7 }
    /\ addr(m_value) # addr(pte_last.pre)

\* C16: after set_addr(p), addr() is bits 12 to 51 of p.
C16_AddrIsBits12To51 ==
    (pte_last.op = "set_addr")
        => (addr(m_value) = pte_last.arg \cap (12 .. 51))

\* C17 as stated: after set_available(v) with a 14-bit v, get_available()
\* returns v.
C17_AvailableRoundTrip ==
    (pte_last.op = "set_available" /\ pte_last.arg \subseteq 0 .. 13)
        => (get_available(m_value) = pte_last.arg)

\* C17 amended: after set_available(v) with a 14-bit v, get_available()
\* returns v with bit 0 cleared, so it returns v exactly for even v.
C17_AvailableRoundTripWithoutBit0 ==
    (pte_last.op = "set_available" /\ pte_last.arg \subseteq 0 .. 13)
        => /\ get_available(m_value) = pte_last.arg \ { 0 }
           /\ (get_available(m_value) = pte_last.arg) <=> (0 \notin pte_last.arg)

\* C17 witness: an odd value with bits in both regions was stored over an
\* entry whose available bits were all set.
C17_Witness ==
    /\ pte_last.op = "set_available" /\ pte_last.arg = { 0, 4, 5, 13 }
    /\ get_available(pte_last.pre) = 1 .. 15
    /\ get_available(m_value) = { 4, 5, 13 }

\* C18: init() sizes the bitmap as ceil(pages / 8) bytes, so the storage has a
\* bit for every frame index and no bit allocate_page() or free_page()
\* accesses lies outside it.
C18_StorageHoldsEveryFrameBit ==
    (phase = "ready")
        => /\ bitmap_array_size = div_ceil(pages, 8)
           /\ \A f \in Frames : f < 8 * bitmap_array_size
           /\ (last.op = "alloc" /\ ~last.fatal)
                  => (IndexOf(last.ret) < 8 * bitmap_array_size)
           /\ (last.op = "free" /\ ~last.fatal)
                  => (IndexOf(last.arg) < 8 * bitmap_array_size)

\* C19: a returning free_page(p) clears exactly the bit whose index is the
\* pages of the usable entries before p's entry plus p's page offset in its
\* entry, the index of the frame allocate_page() returns as p, and no other bit.
C19_FreeClearsExactlyOneBit ==
    (last.op = "free" /\ ~last.fatal)
        => \E i \in 1 .. Len(memmap) :
               LET page_address == last.arg - hhdm_base
                   page_index == UsablePagesBefore(i)
                                 + (page_address - memmap[i].base) \div PAGE_SIZE
               IN  /\ InUsableEntry(i, page_address)
                   /\ PointerOf(page_index) = last.arg
                   /\ mem = last.pre \ { page_index }

\* Usable entry i is long enough for the bitmap's bytes.
Fits(i) == USABLE(memmap[i]) /\ memmap[i].length >= bitmap_array_size

\* init() halted and left the allocator as it was: no bitmap, no bit written.
InitHalted ==
    /\ last.fatal /\ phase = "halted"
    /\ bitmap = [address |-> 0, size |-> 0]
    /\ mem = last.pre

\* init() returned with the bitmap at the base of the first entry that fits.
InitPlaced ==
    /\ ~last.fatal /\ phase = "ready"
    /\ \E i \in 1 .. Len(memmap) :
           /\ Fits(i) /\ \A j \in 1 .. (i - 1) : ~Fits(j)
           /\ bitmap.address = hhdm_offset + memmap[i].base

\* C20 as stated: init() halts, leaving the allocator uninitialised, exactly
\* when the memory map has no usable entry that fits the bitmap (none if there
\* is no memory map), and otherwise places the bitmap in the first that fits.
C20_HaltsExactlyWhenNoEntryFits ==
    (last.op = "init")
        => IF ~memmap_response \/ \A i \in 1 .. Len(memmap) : ~Fits(i)
           THEN InitHalted
           ELSE InitPlaced

\* C20 amended: given both firmware responses, init() halts exactly when no
\* usable entry fits the bitmap and otherwise places it in the first that
\* fits; without either response it halts as well.
C20_HaltsWhenNoEntryFitsOrNoResponse ==
    (last.op = "init")
        => IF ~memmap_response \/ ~hhdm_response
              \/ \A i \in 1 .. Len(memmap) : ~Fits(i)
           THEN InitHalted
           ELSE InitPlaced

\* C20 witness: both responses are there and the map has entries, none of
\* them usable; init() halted.
C20_Witness ==
    /\ last.op = "init" /\ last.fatal
    /\ memmap_response /\ hhdm_response
    /\ Len(memmap) > 0 /\ \A i \in 1 .. Len(memmap) : ~Fits(i)
    /\ bitmap.address = 0

\* C21: allocate_page() called after init() while the bit of at least one
\* usable frame is clear returns an address and does not halt, also on a map
\* whose first usable entry starts at physical address 0.
C21_HaltsOnlyOnExhaustion ==
    (last.op = "alloc" /\ \E f \in Frames : ~BitSet(last.pre, f))
        => (~last.fatal /\ phase = "ready" /\ last.ret # 0)

====
